---- MODULE Spec2Model ----
(***************************************************************************)
(* bom-merger (src/main.go): merges the BOM fragments of a directory into   *)
(* bom.json (resolved projects) and bom_error.json (error projects).        *)
(*                                                                          *)
(* Strings that the program inspects byte by byte (project identifiers,     *)
(* module prefixes, VCS roots) are sequences of byte values, so that        *)
(* strings.HasPrefix, strings.Split, strings.Join and sort.Strings are      *)
(* computed as Go computes them.  Opaque strings (license type, error text, *)
(* JSON field names) are TLA+ strings.  A confidence is its value in        *)
(* hundredths (0.95 is 95): only its order and its being zero matter.       *)
(*                                                                          *)
(* Of the failures that end a run, a document that does not decode and an   *)
(* error or a panic in discoverVCS are modelled; a directory or a file that *)
(* cannot be read or written is not.                                        *)
(***************************************************************************)
EXTENDS Integers, Sequences, FiniteSets, TLC

VARIABLES
    pc,             \* position of main()
    filterModules,  \* --filter-modules, after flag.Parse
    regOverride,    \* map[string]projectAndLicenses
    regBOM,         \* map[string]projectAndLicenses
    regErrors,      \* map[string]projectAndLicenses
    gooddoc,        \* loadBOM's local: the next document is stored as resolved projects
    ndocs,          \* documents decoded so far from the file that is open
    nread,          \* directory entries, documents and records read so far
    bomJson,        \* content of <out>/bom.json
    errJson,        \* content of <out>/bom_error.json
    fatal,          \* why the process panicked, "" while it has not
    input,          \* history: the records decoded so far, in order, each with whether
                    \*   it stood in the first document of its file
    atOpen,         \* history: the tables when the current file was opened, and the
                    \*   resolved table after its first document
    atCleanup,      \* history: regBOM when cleanupLicense was called
    atFilter,       \* history: both tables when the filter loop was entered
    atOverride,     \* history: both tables when the override loop was entered
    derived         \* history: what mod.DetectVCSRoot returned, per table and identifier

vars == <<pc, filterModules, regOverride, regBOM, regErrors, gooddoc, ndocs, nread,
          bomJson, errJson, fatal, input, atOpen, atCleanup, atFilter, atOverride, derived>>

---------------------------------------------------------------------------
(* Bounds of the model *)

\* directory entries, documents and records read by one run, taken together
MaxInput == 6
\* prefixes given to --filter-modules
MaxPrefixes == 2
\* records of the override file
MaxOverrides == 2
\* length of the license lists the reducer is tried on exhaustively
MaxLic == 3

---------------------------------------------------------------------------
(* Byte strings *)

\* "github.com/"
GithubPrefix == <<103, 105, 116, 104, 117, 98, 46, 99, 111, 109, 47>>
\* "gitlab.com/"
GitlabPrefix == <<103, 105, 116, 108, 97, 98, 46, 99, 111, 109, 47>>
\* "/"
Slash == <<47>>
\* "github.com/x/y/z"
GhXYZ == GithubPrefix \o <<120, 47, 121, 47, 122>>
\* "github.com/x/y"
GhXY == GithubPrefix \o <<120, 47, 121>>
\* "github.com/x"
GhX == GithubPrefix \o <<120>>
\* "gitlab.com/a/b"
GlAB == GitlabPrefix \o <<97, 47, 98>>
\* "custom"
Custom == <<99, 117, 115, 116, 111, 109>>
\* "r": stands for a non-empty root returned by mod.DetectVCSRoot
Detected == <<114>>
\* the empty string
Empty == <<>>

\* strings.HasPrefix(s, prefix)
HasPrefix(s, prefix) ==
    /\ Len(prefix) <= Len(s)
    /\ SubSeq(s, 1, Len(prefix)) = prefix

\* strings.Split(s, sep) for a one-byte separator: Count(s, sep) + 1 pieces
RECURSIVE Split(_, _)
Split(s, sep) ==
    IF \E i \in 1..Len(s) : s[i] = sep[1]
    THEN LET i == CHOOSE j \in 1..Len(s) :
                      s[j] = sep[1] /\ \A k \in 1..(j - 1) : s[k] # sep[1]
         IN  <<SubSeq(s, 1, i - 1)>> \o Split(SubSeq(s, i + 1, Len(s)), sep)
    ELSE <<s>>

\* strings.Join(elems, sep)
RECURSIVE Join(_, _)
Join(elems, sep) ==
    IF Len(elems) = 0 THEN Empty
    ELSE IF Len(elems) = 1 THEN elems[1]
    ELSE elems[1] \o sep \o Join(Tail(elems), sep)

\* a < b for Go strings: bytewise lexicographic order, as sort.Strings uses
RECURSIVE Less(_, _)
Less(a, b) ==
    IF Len(b) = 0 THEN FALSE
    ELSE IF Len(a) = 0 THEN TRUE
    ELSE IF a[1] # b[1] THEN a[1] < b[1]
    ELSE Less(Tail(a), Tail(b))

---------------------------------------------------------------------------
(* Records and maps *)

\* type license
License(type, confidence) == [Type |-> type, Confidence |-> confidence]

\* type projectAndLicenses
Project(project, licenses, error, vcs) ==
    [Project |-> project, Licenses |-> licenses, Error |-> error, VCS |-> vcs]

\* map[string]projectAndLicenses{}
EmptyMap == [p \in {} |-> Project(Empty, <<>>, "", Empty)]

\* m[k] = v
Put(m, k, v) == [p \in DOMAIN m \cup {k} |-> IF p = k THEN v ELSE m[p]]

\* delete(m, k) for every k of ks
Delete(m, ks) == [p \in DOMAIN m \ ks |-> m[p]]

---------------------------------------------------------------------------
(* Inputs the runs are tried on *)

\* records the scanner may have written to a fragment
ScannedRecords ==
    { Project(GhXYZ, <<License("A", 90), License("B", 95), License("C", 95)>>, "", Empty),
      Project(GhXYZ, <<License("MIT", 90)>>, "", Empty),
      Project(GlAB, <<License("A", 0), License("B", 0)>>, "", Empty),
      Project(GhX, <<>>, "e", Empty),
      Project(Empty, <<License("MIT", 90)>>, "", Empty) }

\* records the user may have written to the override file
OverrideRecords ==
    { Project(GhXYZ, <<License("Apache-2.0", 100), License("MIT", 100)>>, "", Custom),
      Project(GlAB, <<License("Apache-2.0", 100)>>, "", Empty) }

\* prefixes the user may give to --filter-modules
Prefixes == { GhXY, GitlabPrefix }

\* sequences over S of length at most n
SeqUpTo(S, n) == UNION { [1..k -> S] : k \in 0..n }

\* the entries of both history tables, empty
NoTables == [bom |-> EmptyMap, err |-> EmptyMap, first |-> EmptyMap]

---------------------------------------------------------------------------
(* main up to the directory loop, and loadBOM *)

Init ==
    /\ pc = "start"
    /\ filterModules = <<>>
    /\ regOverride = EmptyMap
    /\ regBOM = EmptyMap
    /\ regErrors = EmptyMap
    /\ gooddoc = TRUE
    /\ ndocs = 0
    /\ nread = 0
    /\ bomJson = <<>>
    /\ errJson = <<>>
    /\ fatal = ""
    /\ input = <<>>
    /\ atOpen = NoTables
    /\ atCleanup = EmptyMap
    /\ atFilter = NoTables
    /\ atOverride = NoTables
    /\ derived = [bom |-> <<>>, err |-> <<>>]

\* flag.Parse()
ParseFlags ==
    /\ pc = "start"
    /\ \E modules \in SeqUpTo(Prefixes, MaxPrefixes) : filterModules' = modules
    /\ pc' = "override"
    /\ UNCHANGED <<regOverride, regBOM, regErrors, gooddoc, ndocs, nread, bomJson,
                   errJson, fatal, input, atOpen, atCleanup, atFilter, atOverride, derived>>

\* for _, project := range overrides { regOverride[project.Project] = project }
RECURSIVE LoadOverrides(_, _)
LoadOverrides(reg, overrides) ==
    IF Len(overrides) = 0 THEN reg
    ELSE LoadOverrides(Put(reg, overrides[1].Project, overrides[1]), Tail(overrides))

\* main, the override file; without --override-file nothing is loaded, as with an
\* empty array
LoadOverrideFile ==
    /\ pc = "override"
    /\ \E overrides \in SeqUpTo(OverrideRecords, MaxOverrides) :
           regOverride' = LoadOverrides(regOverride, overrides)
    /\ pc' = "readdir"
    /\ UNCHANGED <<filterModules, regBOM, regErrors, gooddoc, ndocs, nread, bomJson,
                   errJson, fatal, input, atOpen, atCleanup, atFilter, atOverride, derived>>

\* main's loop over the directory: a subdirectory is skipped
SkipDir ==
    /\ pc = "readdir"
    /\ nread < MaxInput
    /\ nread' = nread + 1
    /\ UNCHANGED <<pc, filterModules, regOverride, regBOM, regErrors, gooddoc, ndocs,
                   bomJson, errJson, fatal, input, atOpen, atCleanup, atFilter,
                   atOverride, derived>>

\* loadBOM up to its loop: the file is opened, gooddoc := true
OpenFile ==
    /\ pc = "readdir"
    /\ nread < MaxInput
    /\ nread' = nread + 1
    /\ ndocs' = 0
    /\ gooddoc' = TRUE
    /\ atOpen' = [bom |-> regBOM, err |-> regErrors, first |-> regBOM]
    /\ pc' = "decode"
    /\ UNCHANGED <<filterModules, regOverride, regBOM, regErrors, bomJson, errJson,
                   fatal, input, atCleanup, atFilter, atOverride, derived>>

\* InsertAll gone wrong: an identifier that is stored already is not overwritten
RECURSIVE InsertAllFirstWins(_, _)
InsertAllFirstWins(reg, info) ==
    IF Len(info) = 0 THEN reg
    ELSE IF info[1].Project = Empty \/ info[1].Project \in DOMAIN reg
         THEN InsertAllFirstWins(reg, Tail(info))
         ELSE InsertAllFirstWins(Put(reg, info[1].Project, info[1]), Tail(info))

\* the loop over one decoded document: reg[project.Project] = project, skipping the
\* records with an empty identifier
RECURSIVE InsertAll(_, _)
InsertAll(reg, info) ==
    IF Len(info) = 0 THEN reg
    ELSE IF info[1].Project = Empty THEN InsertAll(reg, Tail(info))
    ELSE InsertAll(Put(reg, info[1].Project, info[1]), Tail(info))

\* StoreDoc gone wrong: gooddoc is never reset, every document is stored as
\* resolved projects
StoreDocNoReset(bom, errors, good, info) ==
    IF good
    THEN <<InsertAll(bom, info), errors, good>>
    ELSE <<bom, InsertAll(errors, info), good>>

\* what one turn of loadBOM's loop does with the decoded document info:
\* the new <<regBOM, regErrors, gooddoc>>
StoreDoc(bom, errors, good, info) ==
    IF good
    THEN <<InsertAll(bom, info), errors, FALSE>>
    ELSE <<bom, InsertAll(errors, info), good>>

\* one turn of loadBOM's loop: a document is decoded and its records are stored
DecodeDoc ==
    /\ pc = "decode"
    /\ nread < MaxInput
    /\ \E info \in SeqUpTo(ScannedRecords, MaxInput - nread - 1) :
        LET stored == StoreDoc(regBOM, regErrors, gooddoc, info)
        IN  /\ regBOM' = stored[1]
            /\ regErrors' = stored[2]
            /\ gooddoc' = stored[3]
            /\ nread' = nread + 1 + Len(info)
            /\ input' = input \o [i \in 1..Len(info) |->
                                     [First |-> ndocs = 0, Rec |-> info[i]]]
            /\ atOpen' = IF ndocs = 0 THEN [atOpen EXCEPT !.first = stored[1]]
                         ELSE atOpen
    /\ ndocs' = ndocs + 1
    /\ UNCHANGED <<pc, filterModules, regOverride, bomJson, errJson, fatal,
                   atCleanup, atFilter, atOverride, derived>>

\* decoder.Decode returns io.EOF: loadBOM returns nil, and its locals and the
\* history of the file end with it
DecodeEOF ==
    /\ pc = "decode"
    /\ pc' = "readdir"
    /\ gooddoc' = TRUE
    /\ ndocs' = 0
    /\ atOpen' = NoTables
    /\ UNCHANGED <<filterModules, regOverride, regBOM, regErrors, nread, bomJson,
                   errJson, fatal, input, atCleanup, atFilter, atOverride, derived>>

\* a panic ends the process: its memory is gone, the files it wrote stay
Panic(reason) ==
    /\ pc' = "panic"
    /\ fatal' = reason
    /\ filterModules' = <<>>
    /\ regOverride' = EmptyMap
    /\ regBOM' = EmptyMap
    /\ regErrors' = EmptyMap
    /\ gooddoc' = TRUE
    /\ ndocs' = 0
    /\ nread' = 0
    /\ input' = <<>>
    /\ atOpen' = NoTables
    /\ atCleanup' = EmptyMap
    /\ atFilter' = NoTables
    /\ atOverride' = NoTables
    /\ UNCHANGED <<bomJson, errJson>>

\* decoder.Decode returns another error: loadBOM returns it and main panics
DecodeFail ==
    /\ pc = "decode"
    /\ Panic("decode")
    /\ UNCHANGED derived

---------------------------------------------------------------------------
(* cleanupLicense *)

\* PickIdx gone wrong: >= for >, the last of the greatest confidences wins
RECURSIVE PickIdxLast(_, _, _, _)
PickIdxLast(licenses, i, score, idx) ==
    IF i > Len(licenses) THEN idx
    ELSE IF licenses[i].Confidence >= score
         THEN PickIdxLast(licenses, i + 1, licenses[i].Confidence, i)
         ELSE PickIdxLast(licenses, i + 1, score, idx)

\* the inner loop of cleanupLicense over licenses[i..]: the index it ends with,
\* from the running maximum score and its index idx (1-based here)
RECURSIVE PickIdx(_, _, _, _)
PickIdx(licenses, i, score, idx) ==
    IF i > Len(licenses) THEN idx
    ELSE IF licenses[i].Confidence > score
         THEN PickIdx(licenses, i + 1, licenses[i].Confidence, i)
         ELSE PickIdx(licenses, i + 1, score, idx)

\* Reduce gone wrong: > 2 for > 1, a list of two guesses is kept
ReduceLong(info) ==
    IF Len(info.Licenses) > 2
    THEN [info EXCEPT !.Licenses = <<info.Licenses[PickIdx(info.Licenses, 1, 0, 1)]>>]
    ELSE info

\* what cleanupLicense stores for one record
Reduce(info) ==
    IF Len(info.Licenses) > 1
    THEN [info EXCEPT !.Licenses = <<info.Licenses[PickIdx(info.Licenses, 1, 0, 1)]>>]
    ELSE info

\* cleanupLicense(reg)
cleanupLicense(reg) == [project \in DOMAIN reg |-> Reduce(reg[project])]

\* the directory listing is exhausted; main calls cleanupLicense(regBOM).  The
\* ingester's history ends here.
CleanupLicense ==
    /\ pc = "readdir"
    /\ atCleanup' = regBOM
    /\ regBOM' = cleanupLicense(regBOM)
    /\ pc' = "filter"
    /\ input' = <<>>
    /\ nread' = 0
    /\ UNCHANGED <<filterModules, regOverride, regErrors, gooddoc, ndocs, bomJson,
                   errJson, fatal, atOpen, atFilter, atOverride, derived>>

---------------------------------------------------------------------------
(* main: the module filter and the overrides *)

\* the inner loop of the filter for one module: every project of reg with that
\* prefix is deleted (deleting while ranging over a Go map is allowed, and every
\* entry that is not deleted is visited)
FilterModule(reg, module) ==
    Delete(reg, {project \in DOMAIN reg : HasPrefix(project, module)})

\* FilterModules gone wrong: the loop ends after its first module
FilterFirstModule(reg, modules, i) ==
    IF i > Len(modules) THEN reg ELSE FilterModule(reg, modules[i])

\* the filter loop over modules[i..]
RECURSIVE FilterModules(_, _, _)
FilterModules(reg, modules, i) ==
    IF i > Len(modules) THEN reg
    ELSE FilterModules(FilterModule(reg, modules[i]), modules, i + 1)

\* main, the loop over filterModules
Filter ==
    /\ pc = "filter"
    /\ atFilter' = [bom |-> regBOM, err |-> regErrors, first |-> EmptyMap]
    /\ regBOM' = FilterModules(regBOM, filterModules, 1)
    /\ pc' = "apply"
    /\ UNCHANGED <<filterModules, regOverride, regErrors, gooddoc, ndocs, nread,
                   bomJson, errJson, fatal, input, atOpen, atCleanup, atOverride, derived>>

\* ApplyOverrides gone wrong: the override is merged into the scanned record, the
\* licenses of both kept
ApplyOverridesMerged(reg, override) ==
    [project \in DOMAIN reg |->
        IF project \in DOMAIN override
        THEN [override[project] EXCEPT !.Licenses = reg[project].Licenses \o @]
        ELSE reg[project]]

\* ApplyOverrides gone wrong: the loop ranges over the override table, and adds
ApplyOverridesAdding(reg, override) ==
    [project \in DOMAIN reg \cup DOMAIN override |->
        IF project \in DOMAIN override THEN override[project] ELSE reg[project]]

\* the override loop: if override, ok := regOverride[project]; ok { reg[project] = override }
ApplyOverrides(reg, override) ==
    [project \in DOMAIN reg |->
        IF project \in DOMAIN override THEN override[project] ELSE reg[project]]

\* main, the loop over regBOM that applies the overrides
Override ==
    /\ pc = "apply"
    /\ atOverride' = [bom |-> regBOM, err |-> regErrors, first |-> EmptyMap]
    /\ regBOM' = ApplyOverrides(regBOM, regOverride)
    /\ pc' = "vcsBOM"
    /\ UNCHANGED <<filterModules, regOverride, regErrors, gooddoc, ndocs, nread,
                   bomJson, errJson, fatal, input, atOpen, atCleanup, atFilter, derived>>

---------------------------------------------------------------------------
(* discoverVCS *)

\* what mod.DetectVCSRoot may return: (vcs, err)
Detections ==
    { [vcs |-> Empty, err |-> FALSE],
      [vcs |-> Detected, err |-> FALSE],
      [vcs |-> Empty, err |-> TRUE] }

\* strings.Split(project, "/")[:3] panics (slice bounds out of range) when Split
\* returned fewer than 3 pieces: the slice it returns has no spare capacity
SlicePanics(project) == Len(Split(project, Slash)) < 3

\* the record discoverVCS stores for project when DetectVCSRoot returned vcs
\* without error and the slice expression does not panic
WithVCS(project, info, vcs) ==
    IF vcs # Empty
    THEN [info EXCEPT !.VCS = vcs]
    ELSE IF HasPrefix(project, GithubPrefix)
         THEN [info EXCEPT !.VCS = Join(SubSeq(Split(project, Slash), 1, 3), Slash)]
         ELSE info

\* the projects of reg at which discoverVCS stops, given DetectVCSRoot's answers d
Stops(reg, d) ==
    { project \in DOMAIN reg :
        LET r == d[reg[project].Project]
        IN  \/ r.err
            \/ r.vcs = Empty /\ HasPrefix(project, GithubPrefix) /\ SlicePanics(project) }

\* discoverVCS(reg) under the answers d: the possible <<reg, fatal>>.  The range
\* over the map visits the projects in any order, so it may stop at any of
\* Stops(reg, d); main panics with the error returned, or the slice expression
\* has panicked
discoverVCS(reg, d) ==
    IF Stops(reg, d) = {}
    THEN { <<[project \in DOMAIN reg |->
                WithVCS(project, reg[project], d[reg[project].Project].vcs)], "">> }
    ELSE { <<reg, IF d[reg[project].Project].err
                  THEN "DetectVCSRoot"
                  ELSE "slice bounds out of range">> : project \in Stops(reg, d) }

\* main: err = discoverVCS(regBOM)
DiscoverBOM ==
    /\ pc = "vcsBOM"
    /\ \E d \in [{regBOM[project].Project : project \in DOMAIN regBOM} -> Detections] :
        \E out \in discoverVCS(regBOM, d) :
            /\ derived' = [derived EXCEPT !.bom = d]
            /\ IF out[2] = ""
               THEN /\ regBOM' = out[1]
                    /\ pc' = "vcsErrors"
                    /\ UNCHANGED <<filterModules, regOverride, regErrors, gooddoc, ndocs,
                                   nread, bomJson, errJson, fatal, input, atOpen,
                                   atCleanup, atFilter, atOverride>>
               ELSE Panic(out[2])

\* main: err = discoverVCS(regErrors)
DiscoverErrors ==
    /\ pc = "vcsErrors"
    /\ \E d \in [{regErrors[project].Project : project \in DOMAIN regErrors} -> Detections] :
        \E out \in discoverVCS(regErrors, d) :
            /\ derived' = [derived EXCEPT !.err = d]
            /\ IF out[2] = ""
               THEN /\ regErrors' = out[1]
                    /\ pc' = "writeBOM"
                    /\ UNCHANGED <<filterModules, regOverride, regBOM, gooddoc, ndocs,
                                   nread, bomJson, errJson, fatal, input, atOpen,
                                   atCleanup, atFilter, atOverride>>
               ELSE Panic(out[2])

---------------------------------------------------------------------------
(* writeBOM, Keys, MarshalJson *)

\* for k := range m { keys = append(keys, k) }: the keys in the map's order
RECURSIVE Ranged(_)
Ranged(S) ==
    IF S = {} THEN <<>>
    ELSE LET k == CHOOSE x \in S : TRUE IN <<k>> \o Ranged(S \ {k})

\* sort.Strings(keys)
RECURSIVE SortStrings(_)
SortStrings(keys) ==
    IF Len(keys) <= 1 THEN keys
    ELSE LET rest == SortStrings(Tail(keys))
             n == Cardinality({i \in 1..Len(rest) : Less(rest[i], keys[1])})
         IN  SubSeq(rest, 1, n) \o <<keys[1]>> \o SubSeq(rest, n + 1, Len(rest))

\* Keys gone wrong: the keys are not sorted
KeysUnsorted(m) == Ranged(DOMAIN m)

\* Keys(m)
Keys(m) == SortStrings(Ranged(DOMAIN m))

\* the JSON object of a license: the struct tags are all omitempty
MarshalLicense(lic) ==
    LET fields == (IF lic.Type # "" THEN {"type"} ELSE {})
                  \cup (IF lic.Confidence # 0 THEN {"confidence"} ELSE {})
    IN  [f \in fields |-> IF f = "type" THEN lic.Type ELSE lic.Confidence]

\* the JSON object of a projectAndLicenses: every field but project is omitempty
MarshalProject(info) ==
    LET fields == {"project"}
                  \cup (IF Len(info.Licenses) > 0 THEN {"licenses"} ELSE {})
                  \cup (IF info.Error # "" THEN {"error"} ELSE {})
                  \cup (IF info.VCS # Empty THEN {"vcs"} ELSE {})
    IN  [f \in fields |->
            CASE f = "project" -> info.Project
              [] f = "licenses" -> [i \in 1..Len(info.Licenses) |->
                                       MarshalLicense(info.Licenses[i])]
              [] f = "error" -> info.Error
              [] f = "vcs" -> info.VCS]

\* MarshalJson(bom): the JSON array (its layout in bytes is not modelled)
MarshalJson(bom) == [i \in 1..Len(bom) |-> MarshalProject(bom[i])]

\* the data writeBOM writes for reg
writeBOM(reg) ==
    LET keys == Keys(reg)
    IN  MarshalJson([i \in 1..Len(keys) |-> reg[keys[i]]])

\* main: writeBOM(filepath.Join(dirOut, "bom.json"), regBOM)
WriteBOM ==
    /\ pc = "writeBOM"
    /\ bomJson' = writeBOM(regBOM)
    /\ pc' = "writeErrors"
    /\ UNCHANGED <<filterModules, regOverride, regBOM, regErrors, gooddoc, ndocs, nread,
                   errJson, fatal, input, atOpen, atCleanup, atFilter, atOverride, derived>>

\* main: writeBOM(filepath.Join(dirOut, "bom_error.json"), regErrors)
WriteErrors ==
    /\ pc = "writeErrors"
    /\ errJson' = writeBOM(regErrors)
    /\ pc' = "done"
    /\ UNCHANGED <<filterModules, regOverride, regBOM, regErrors, gooddoc, ndocs, nread,
                   bomJson, fatal, input, atOpen, atCleanup, atFilter, atOverride, derived>>

\* json decoding of a license object, as the ingester and the override loader do it
UnmarshalLicense(obj) ==
    License(IF "type" \in DOMAIN obj THEN obj["type"] ELSE "",
            IF "confidence" \in DOMAIN obj THEN obj["confidence"] ELSE 0)

\* json decoding of a project object
UnmarshalProject(obj) ==
    Project(IF "project" \in DOMAIN obj THEN obj["project"] ELSE Empty,
            IF "licenses" \in DOMAIN obj
            THEN [i \in 1..Len(obj["licenses"]) |-> UnmarshalLicense(obj["licenses"][i])]
            ELSE <<>>,
            IF "error" \in DOMAIN obj THEN obj["error"] ELSE "",
            IF "vcs" \in DOMAIN obj THEN obj["vcs"] ELSE Empty)

---------------------------------------------------------------------------
(* The program *)

Next ==
    \/ ParseFlags
    \/ LoadOverrideFile
    \/ SkipDir
    \/ OpenFile
    \/ DecodeDoc
    \/ DecodeEOF
    \/ DecodeFail
    \/ CleanupLicense
    \/ Filter
    \/ Override
    \/ DiscoverBOM
    \/ DiscoverErrors
    \/ WriteBOM
    \/ WriteErrors

Spec == Init /\ [][Next]_vars


---------------------------------------------------------------------------
(* Properties *)

\* the positions of main from which the named step has been taken
AfterReduce == {"filter", "apply", "vcsBOM", "vcsErrors", "writeBOM", "writeErrors", "done"}
AfterFilter == AfterReduce \ {"filter"}
AfterOverride == AfterFilter \ {"apply"}
BomWritten == {"writeErrors", "done"}
Ingesting == {"readdir", "decode"}

\* the project identifiers of a written array
JsonIds(json) == { json[i]["project"] : i \in 1..Len(json) }

\* the record written for project p
Written(json, p) ==
    UnmarshalProject(json[CHOOSE i \in 1..Len(json) : json[i]["project"] = p])

\* the first three '/'-separated segments of p, joined by '/'
FirstThree(p) == Join(SubSeq(Split(p, Slash), 1, 3), Slash)

\* C1 as claimed: every project that is in the resolved table when the overrides
\* are applied and has an override is written to bom.json as exactly the override
\* record, every field included.
C1_Original ==
    pc \in BomWritten =>
        \A p \in DOMAIN atOverride.bom \cap DOMAIN regOverride :
            /\ p \in JsonIds(bomJson)
            /\ Written(bomJson, p) = regOverride[p]

\* C1 amended: such a project is written to bom.json with the project, licenses
\* and error of the override record and none of the scanned record; its vcs is
\* the root DetectVCSRoot returned when that is not empty, else the first three
\* segments of the identifier when it begins with "github.com/", and the
\* override's vcs only otherwise.
C1_Amended ==
    pc \in BomWritten =>
        \A p \in DOMAIN atOverride.bom \cap DOMAIN regOverride :
            /\ p \in JsonIds(bomJson)
            /\ LET w == Written(bomJson, p)
                   o == regOverride[p]
                   d == derived.bom[p].vcs
               IN  /\ w.Project = o.Project
                   /\ w.Licenses = o.Licenses
                   /\ w.Error = o.Error
                   /\ d # Empty => w.VCS = d
                   /\ d = Empty /\ HasPrefix(p, GithubPrefix) => w.VCS = FirstThree(p)
                   /\ d = Empty /\ ~HasPrefix(p, GithubPrefix) => w.VCS = o.VCS

\* C1 witness: bom.json is written with a project whose scanned licenses differ
\* from its override's, once with a vcs taken from the override and once not.
C1_Witness ==
    /\ pc = "done"
    /\ \E p \in DOMAIN atOverride.bom \cap DOMAIN regOverride :
           /\ atOverride.bom[p].Licenses # regOverride[p].Licenses
           /\ Written(bomJson, p).VCS # regOverride[p].VCS
    /\ \E p \in DOMAIN atOverride.bom \cap DOMAIN regOverride :
           /\ atOverride.bom[p].Licenses # regOverride[p].Licenses
           /\ Written(bomJson, p) = regOverride[p]

\* json is strictly ascending by project identifier and has one element per key of reg
SortedByProject(json, reg) ==
    /\ \A i, j \in 1..Len(json) : i < j => Less(json[i]["project"], json[j]["project"])
    /\ JsonIds(json) = DOMAIN reg
    /\ Len(json) = Cardinality(DOMAIN reg)

\* C2: the arrays written to bom.json and to bom_error.json are strictly ascending
\* by project identifier, without two elements of the same identifier, one element
\* per key of the table written.
C2_Sorted ==
    /\ pc \in BomWritten => SortedByProject(bomJson, regBOM)
    /\ pc = "done" => SortedByProject(errJson, regErrors)

\* C2 witness: both files are written, bom.json with two projects or more.
C2_Witness ==
    /\ pc = "done"
    /\ Len(bomJson) >= 2
    /\ Len(errJson) >= 1

\* the lowest index of licenses at which the confidence is the greatest
FirstMax(licenses) ==
    CHOOSE i \in 1..Len(licenses) :
        /\ \A j \in 1..Len(licenses) : licenses[j].Confidence <= licenses[i].Confidence
        /\ \A j \in 1..(i - 1) : licenses[j].Confidence < licenses[i].Confidence

\* after is what the reducer is to make of before
Reduced(before, after) ==
    IF Len(before.Licenses) > 1
    THEN after = [before EXCEPT !.Licenses = <<before.Licenses[FirstMax(before.Licenses)]>>]
    ELSE after = before

\* license lists of every length up to MaxLic with confidences 0, 0.5 and 1, the
\* type of a guess telling its index
LicenseLists ==
    { [i \in 1..Len(c) |-> License(<<"A", "B", "C", "D", "E", "F">>[i], c[i])] :
        c \in SeqUpTo({0, 50, 100}, MaxLic) }

\* C3: cleanupLicense replaces every list of more than one guess by the single
\* guess at the lowest index of greatest confidence and leaves every other record
\* as it was; checked on the resolved table of every run and on every list of
\* LicenseLists.
C3_Reduce ==
    pc = "filter" =>
        /\ DOMAIN regBOM = DOMAIN atCleanup
        /\ \A p \in DOMAIN atCleanup : Reduced(atCleanup[p], regBOM[p])
        /\ \A l \in LicenseLists :
               LET info == Project(GlAB, l, "", Empty)
               IN  Reduced(info, cleanupLicense(Put(EmptyMap, GlAB, info))[GlAB])

\* C3 witness: the reducer has run on a table with a list whose greatest
\* confidence is tied and not first, and with a list of confidences all 0.
C3_Witness ==
    /\ pc = "filter"
    /\ \E p \in DOMAIN atCleanup :
           LET l == atCleanup[p].Licenses
           IN  /\ Len(l) > 2
               /\ FirstMax(l) = 2
               /\ l[3].Confidence = l[2].Confidence
    /\ \E p \in DOMAIN atCleanup :
           LET l == atCleanup[p].Licenses
           IN  Len(l) > 1 /\ \A i \in 1..Len(l) : l[i].Confidence = 0

\* C4 as claimed: from the end of the reducer to the writing of bom.json every
\* record of the resolved table, and of bom.json, has at most one license.
C4_Original ==
    /\ pc \in AfterReduce => \A p \in DOMAIN regBOM : Len(regBOM[p].Licenses) <= 1
    /\ pc \in BomWritten =>
           \A p \in JsonIds(bomJson) : Len(Written(bomJson, p).Licenses) <= 1

\* C4 amended: from the end of the reducer to the writing of bom.json every
\* record of the resolved table, and of bom.json, has at most one license, unless
\* the override step has replaced it by an override record, whose licenses it has.
C4_Amended ==
    /\ pc \in AfterReduce =>
           \A p \in DOMAIN regBOM :
               \/ Len(regBOM[p].Licenses) <= 1
               \/ /\ pc \in AfterOverride
                  /\ p \in DOMAIN regOverride
                  /\ regBOM[p].Licenses = regOverride[p].Licenses
    /\ pc \in BomWritten =>
           \A p \in JsonIds(bomJson) :
               \/ Len(Written(bomJson, p).Licenses) <= 1
               \/ /\ p \in DOMAIN regOverride
                  /\ Written(bomJson, p).Licenses = regOverride[p].Licenses

\* C4 witness: bom.json is written with a project that was ingested with several
\* licenses and has no override.
C4_Witness ==
    /\ pc = "done"
    /\ \E p \in DOMAIN atCleanup \cap JsonIds(bomJson) :
           /\ Len(atCleanup[p].Licenses) > 1
           /\ p \notin DOMAIN regOverride

\* C5 as claimed: no project identifier is a key of both tables.
C5_Disjoint == DOMAIN regBOM \cap DOMAIN regErrors = {}

\* the identifiers decoded so far from first documents (first = TRUE) or from
\* later documents (first = FALSE), the empty identifier left out
Routed(first) ==
    { input[i].Rec.Project : i \in { j \in 1..Len(input) :
        input[j].First = first /\ input[j].Rec.Project # Empty } }

\* C6: while the files are read, the resolved table holds exactly the identifiers
\* decoded from first documents and the error table those decoded from later
\* documents; within a file, no table has changed before the first document, the
\* error table has not changed after one document, and the resolved table does
\* not change after the first document.
C6_Positional ==
    /\ pc \in Ingesting =>
           /\ DOMAIN regBOM = Routed(TRUE)
           /\ DOMAIN regErrors = Routed(FALSE)
    /\ pc = "decode" =>
           /\ ndocs = 0 => regBOM = atOpen.bom /\ regErrors = atOpen.err
           /\ ndocs = 1 => regErrors = atOpen.err
           /\ ndocs >= 1 => regBOM = atOpen.first

\* C6 witness: three documents of one file are decoded, its first has changed
\* the resolved table and the later ones the error table.
C6_Witness ==
    /\ pc = "decode"
    /\ ndocs = 3
    /\ regBOM # atOpen.bom
    /\ regErrors # atOpen.err

\* C7: while the files are read, each table holds for each identifier the record
\* of the last occurrence decoded for that table, the whole record.
C7_LastWins ==
    pc \in Ingesting =>
        \A i \in 1..Len(input) :
            LET p == input[i].Rec.Project
                reg == IF input[i].First THEN regBOM ELSE regErrors
            IN  (/\ p # Empty
                 /\ \A j \in (i + 1)..Len(input) :
                        ~(input[j].First = input[i].First /\ input[j].Rec.Project = p))
                => p \in DOMAIN reg /\ reg[p] = input[i].Rec

\* C7 witness: the first document of a file has replaced the record that an
\* earlier file stored for the same identifier, by one with other licenses, and
\* the identifier stands twice in the documents decoded for the resolved table.
C7_Witness ==
    /\ pc = "decode"
    /\ ndocs = 1
    /\ \E p \in DOMAIN atOpen.bom : regBOM[p].Licenses # atOpen.bom[p].Licenses
    /\ \E i, j \in 1..Len(input) :
           /\ i < j
           /\ input[i].First /\ input[j].First
           /\ input[i].Rec.Project = input[j].Rec.Project
           /\ input[i].Rec.Licenses # input[j].Rec.Licenses

\* p begins with one of the --filter-modules prefixes
Filtered(p) == \E k \in 1..Len(filterModules) : HasPrefix(p, filterModules[k])

\* C8: the filter leaves in the resolved table exactly the records whose
\* identifier begins with none of the prefixes, none of the others comes back
\* before or in bom.json, and the error table and bom_error.json keep theirs.
C8_Filter ==
    /\ pc = "apply" =>
           /\ DOMAIN regBOM = { p \in DOMAIN atFilter.bom : ~Filtered(p) }
           /\ \A p \in DOMAIN regBOM : regBOM[p] = atFilter.bom[p]
           /\ regErrors = atFilter.err
    /\ pc \in AfterFilter =>
           /\ \A p \in DOMAIN regBOM : ~Filtered(p)
           /\ DOMAIN regErrors = DOMAIN atFilter.err
    /\ pc \in BomWritten =>
           JsonIds(bomJson) = { p \in DOMAIN atFilter.bom : ~Filtered(p) }
    /\ pc = "done" => JsonIds(errJson) = DOMAIN atFilter.err

\* C8 witness: with two prefixes given, a resolved project begins with the second
\* only, another with none, and an error project with one of them.
C8_Witness ==
    /\ pc = "done"
    /\ Len(filterModules) = 2
    /\ \E p \in DOMAIN atFilter.bom :
           HasPrefix(p, filterModules[2]) /\ ~HasPrefix(p, filterModules[1])
    /\ \E p \in DOMAIN atFilter.bom : ~Filtered(p)
    /\ \E p \in DOMAIN atFilter.err : Filtered(p)

\* C9: the override step leaves the key set of the resolved table as it was, so
\* bom.json has no identifier that the override table alone holds, and the error
\* table is as it was but for the vcs the resolver sets later.
C9_NoInjection ==
    /\ pc \in AfterOverride =>
           /\ DOMAIN regBOM = DOMAIN atOverride.bom
           /\ DOMAIN regErrors = DOMAIN atOverride.err
           /\ \A p \in DOMAIN regErrors :
                  [regErrors[p] EXCEPT !.VCS = atOverride.err[p].VCS] = atOverride.err[p]
    /\ pc = "vcsBOM" => regErrors = atOverride.err
    /\ pc \in BomWritten => JsonIds(bomJson) = DOMAIN atOverride.bom

\* C9 witness: bom.json is written while the override table holds a project that
\* the filter removed and a project ingested only as an error project.
C9_Witness ==
    /\ pc = "done"
    /\ \E p \in DOMAIN regOverride :
           p \in DOMAIN atFilter.bom /\ p \notin DOMAIN atOverride.bom
    /\ \E p \in DOMAIN regOverride :
           p \in DOMAIN regErrors /\ p \notin DOMAIN atCleanup

\* as many of the first '/'-separated segments of p as there are, three at most
UpToThree(p) ==
    LET parts == Split(p, Slash)
    IN  Join(SubSeq(parts, 1, IF Len(parts) < 3 THEN Len(parts) ELSE 3), Slash)

\* C10 as claimed: when DetectVCSRoot returns no error, every record of either
\* table whose identifier begins with "github.com/" and whose derivation is empty
\* gets the first three segments of its identifier as vcs, those of fewer than
\* three segments included, and the run goes on.
C10_Fallback ==
    \A t \in {"bom", "err"} :
        LET d == derived[t]
            reg == IF t = "bom" THEN regBOM ELSE regErrors
        IN  (fatal # "DetectVCSRoot" /\ \A p \in DOMAIN d : ~d[p].err) =>
                \A p \in DOMAIN d :
                    (d[p].vcs = Empty /\ HasPrefix(p, GithubPrefix)) =>
                        /\ fatal = ""
                        /\ p \in DOMAIN reg
                        /\ reg[p].VCS = UpToThree(p)

====
